---- MODULE Spec2Model ----
(***************************************************************************)
(* Model of flamegraph-rs (src/src/main.rs): ingestion of folded stack     *)
(* lines into the frame tree (Node::add), the depth resolver (Node::depth),*)
(* the explicit-stack rectangle iterator (Rects::next), the recursive      *)
(* gen_rects, and the control flow of main including its two output        *)
(* channels.                                                               *)
(*                                                                         *)
(* Counts are u64 in the program and reach values far above what a TLC     *)
(* integer holds, so a u64 is a tuple of four base-10^6 limbs, most        *)
(* significant first.  An f32 is a pair <<m, e>> standing for m * 2^e with *)
(* 2^23 <= m < 2^24 (or <<0, 0>> for zero); its operations round to        *)
(* nearest, ties to even, as IEEE-754 single precision does.  Depths and   *)
(* the invalid-line tally are u64 too but stay tiny, so they are plain     *)
(* naturals; only max_depth - rect.depth is computed with its u64 width.   *)
(*                                                                         *)
(* The recursions that run inside actions are written as recursive         *)
(* functions, whose arguments are evaluated once, rather than as recursive *)
(* operators.                                                              *)
(***************************************************************************)
EXTENDS Integers, Sequences, FiniteSets, TLC

(***************************************************************************)
(* u64                                                                     *)
(***************************************************************************)
Base == 1000000

U64Zero == <<0, 0, 0, 0>>
U64Max == <<18, 446744, 73709, 551615>>

U64Of(n) == <<0, 0, n \div Base, n % Base>>

U64Lt(x, y) ==
    \E i \in 1..4 : x[i] < y[i] /\ \A j \in 1..(i - 1) : x[j] = y[j]

U64Le(x, y) == x = y \/ U64Lt(x, y)

\* limb-wise sum, not reduced modulo 2^64
WideAdd(x, y) ==
    LET d == x[4] + y[4]
        c == x[3] + y[3] + d \div Base
        b == x[2] + y[2] + c \div Base
        a == x[1] + y[1] + b \div Base
    IN  <<a, b % Base, c % Base, d % Base>>

\* limb-wise difference; the caller guarantees x >= y
WideSub(x, y) ==
    LET d == x[4] - y[4]
        bd == IF d < 0 THEN 1 ELSE 0
        c == x[3] - y[3] - bd
        bc == IF c < 0 THEN 1 ELSE 0
        b == x[2] - y[2] - bc
        bb == IF b < 0 THEN 1 ELSE 0
        a == x[1] - y[1] - bb
    IN  <<a, b + bb * Base, c + bc * Base, d + bd * Base>>

U64Overflows(w) == U64Lt(U64Max, w)

\* reduce a sum of two u64 modulo 2^64
U64Wrap(w) == IF U64Overflows(w) THEN WideSub(WideSub(w, U64Max), U64Of(1)) ELSE w

\* u64 addition as `+=` computes it when overflow checks are off
U64Add(x, y) == U64Wrap(WideAdd(x, y))

\* u64 subtraction x - y modulo 2^64
U64WrappingSub(x, y) ==
    IF U64Le(y, x) THEN WideSub(x, y)
    ELSE WideAdd(WideAdd(WideSub(U64Max, y), x), U64Of(1))

U64Half(x) ==
    LET a == x[1]
        b == x[2] + (a % 2) * Base
        c == x[3] + (b % 2) * Base
        d == x[4] + (c % 2) * Base
    IN  <<a \div 2, b \div 2, c \div 2, d \div 2>>

U64Double(x) == WideAdd(x, x)

(***************************************************************************)
(* f32                                                                     *)
(***************************************************************************)
Two23 == 8388608
Two24 == 16777216

F32Zero == <<0, 0>>

\* scale a nonzero integer below 2^24 up to a 24-bit mantissa
F32Normalize[m \in Nat, e \in Int] ==
    IF m >= Two23 THEN <<m, e>> ELSE F32Normalize[2 * m, e - 1]

\* round to nearest, ties to even: g is the first dropped bit, s the OR of the rest
F32Round(m, e, g, s) ==
    LET up == g = 1 /\ (s = 1 \/ m % 2 = 1)
        m1 == IF up THEN m + 1 ELSE m
    IN  IF m1 = Two24 THEN <<Two23, e + 1>> ELSE <<m1, e>>

\* x < 2^24, so x converts without rounding
U64Exact(x) == x[1] = 0 /\ x[2] = 0 /\ x[3] <= 16 /\ x[3] * Base + x[4] < Two24

\* halve x until it fits 24 bits, keeping the last dropped bit g and the OR s of
\* the bits dropped before it
F32Shrink[x \in Seq(Nat), e \in Int, g \in Nat, s \in Nat] ==
    IF U64Exact(x)
    THEN F32Round(x[3] * Base + x[4], e, g, s)
    ELSE F32Shrink[U64Half(x), e + 1, x[4] % 2, IF g = 1 THEN 1 ELSE s]

\* `x as f32`
F32FromU64[x \in Seq(Nat)] ==
    IF x = U64Zero THEN F32Zero
    ELSE IF U64Exact(x)
         THEN F32Normalize[x[3] * Base + x[4], 0]
         ELSE F32Shrink[x, 0, 0, 0]

\* n quotient bits of r / d by long division, r < d
DivBits[r \in Nat, d \in Nat, n \in Nat, q \in Nat] ==
    IF n = 0 THEN <<q, r>>
    ELSE IF 2 * r >= d THEN DivBits[2 * r - d, d, n - 1, 2 * q + 1]
         ELSE DivBits[2 * r, d, n - 1, 2 * q]

\* a / b for nonzero a, b
F32Div[a \in Seq(Int), b \in Seq(Int)] ==
    LET ge == a[1] >= b[1]
        qr == IF ge THEN DivBits[a[1] - b[1], b[1], 24, 1]
                    ELSE DivBits[a[1], b[1], 25, 0]
        e == IF ge THEN a[2] - b[2] - 23 ELSE a[2] - b[2] - 24
    IN  F32Round(qr[1] \div 2, e, qr[1] % 2, IF qr[2] = 0 THEN 0 ELSE 1)

\* a * b
F32Mul[a \in Seq(Int), b \in Seq(Int)] ==
    IF a = F32Zero \/ b = F32Zero THEN F32Zero
    ELSE
    LET a1 == a[1] \div 4096
        a0 == a[1] % 4096
        b1 == b[1] \div 4096
        b0 == b[1] % 4096
        mid == a1 * b0 + a0 * b1
        lowraw == a0 * b0 + (mid % 4096) * 4096
        lo == lowraw % Two24
        hi == a1 * b1 + mid \div 4096 + lowraw \div Two24
    IN  IF hi >= Two23
        THEN F32Round(hi, a[2] + b[2] + 24, lo \div Two23,
                      IF lo % Two23 = 0 THEN 0 ELSE 1)
        ELSE F32Round(2 * hi + lo \div Two23, a[2] + b[2] + 23,
                      (lo % Two23) \div 4194304,
                      IF lo % 4194304 = 0 THEN 0 ELSE 1)

\* a < b for non-negative a, b
F32Lt(a, b) ==
    IF b = F32Zero THEN FALSE
    ELSE IF a = F32Zero THEN TRUE
    ELSE a[2] < b[2] \/ (a[2] = b[2] /\ a[1] < b[1])

Pow2[n \in Nat] == IF n = 0 THEN 1 ELSE 2 * Pow2[n - 1]

\* x * 2^n, held at u64::MAX once it no longer fits
U64Shl[x \in Seq(Nat), n \in Nat] ==
    IF n = 0 THEN x
    ELSE IF U64Overflows(U64Double(x)) THEN U64Max
    ELSE U64Shl[U64Double(x), n - 1]

\* `a as u64`: truncates toward zero, saturates at u64::MAX
F32ToU64[a \in Seq(Int)] ==
    IF a = F32Zero THEN U64Zero
    ELSE IF a[2] >= 0 THEN U64Shl[U64Of(a[1]), a[2]]
    ELSE IF a[2] <= -24 THEN U64Zero
    ELSE U64Of(a[1] \div Pow2[-a[2]])

(***************************************************************************)
(* Text: a line is a sequence of one-character strings                     *)
(***************************************************************************)
Digits == <<"0", "1", "2", "3", "4", "5", "6", "7", "8", "9">>

IsDigit(ch) == \E i \in 1..10 : Digits[i] = ch

DigitVal(ch) == (CHOOSE i \in 1..10 : Digits[i] = ch) - 1

IsWhitespace(ch) == ch = " "

\* str::trim
TrimStart[s \in Seq(STRING)] ==
    IF s # <<>> /\ IsWhitespace(Head(s)) THEN TrimStart[Tail(s)] ELSE s

TrimEnd[s \in Seq(STRING)] ==
    IF s # <<>> /\ IsWhitespace(s[Len(s)])
    THEN TrimEnd[SubSeq(s, 1, Len(s) - 1)] ELSE s

Trim(s) == TrimEnd[TrimStart[s]]

\* str::rfind(' '): position of the last space, 0 for None
RFind(s) ==
    IF \E i \in 1..Len(s) : s[i] = " "
    THEN CHOOSE i \in 1..Len(s) : s[i] = " " /\ \A j \in (i + 1)..Len(s) : s[j] # " "
    ELSE 0

\* x * 10 + d without reduction
TimesTenPlus(x, d) ==
    LET l4 == x[4] * 10 + d
        l3 == x[3] * 10 + l4 \div Base
        l2 == x[2] * 10 + l3 \div Base
        l1 == x[1] * 10 + l2 \div Base
    IN  <<l1, l2 % Base, l3 % Base, l4 % Base>>

ParseDigits[s \in Seq(STRING), acc \in Seq(Nat)] ==
    IF s = <<>> THEN [ok |-> TRUE, val |-> acc]
    ELSE IF ~ IsDigit(Head(s)) THEN [ok |-> FALSE, val |-> U64Zero]
    ELSE LET next == TimesTenPlus(acc, DigitVal(Head(s)))
         IN  IF U64Overflows(next) THEN [ok |-> FALSE, val |-> U64Zero]
             ELSE ParseDigits[Tail(s), next]

\* str::parse::<u64>: an optional '+', then one or more digits, no overflow
ParseU64(s) ==
    LET body == IF s # <<>> /\ Head(s) = "+" THEN Tail(s) ELSE s
    IN  IF body = <<>> THEN [ok |-> FALSE, val |-> U64Zero]
        ELSE ParseDigits[body, U64Zero]

\* str::split(';')
Split[s \in Seq(STRING), cur \in Seq(STRING)] ==
    IF s = <<>> THEN <<cur>>
    ELSE IF Head(s) = ";" THEN <<cur>> \o Split[Tail(s), <<>>]
    ELSE Split[Tail(s), Append(cur, Head(s))]

\* stack.split(';').filter(|s| !s.is_empty())
Segments(stack) == SelectSeq(Split[stack, <<>>], LAMBDA seg : seg # <<>>)

(***************************************************************************)
(* Symbol table: a symbol is the 1-based position of its string in the     *)
(* order of interning, and symbols compare as these positions do           *)
(***************************************************************************)
GetOrIntern(interner, s) ==
    IF \E i \in 1..Len(interner) : interner[i] = s
    THEN [interner |-> interner,
          sym |-> CHOOSE i \in 1..Len(interner) : interner[i] = s]
    ELSE [interner |-> Append(interner, s), sym |-> Len(interner) + 1]

Resolve(interner, sym) == interner[sym]

(***************************************************************************)
(* Frame tree: a function from a node's path of symbols to its count       *)
(***************************************************************************)
NodeNew == U64Zero

Root == <<>>

ChildKeys(nodes, p) ==
    { q[Len(q)] : q \in { r \in DOMAIN nodes :
                            Len(r) = Len(p) + 1 /\ SubSeq(r, 1, Len(p)) = p } }

Child(p, key) == Append(p, key)

\* Node::add that counts a record only at the node where its path ends
RECURSIVE NodeAddLeafOnly(_, _, _, _)
NodeAddLeafOnly(st, self, path, count) ==
    IF path = <<>>
    THEN [nodes |-> [st.nodes EXCEPT ![self] = U64Add(@, count)],
          interner |-> st.interner]
    ELSE LET got == GetOrIntern(st.interner, Head(path))
             child == Child(self, got.sym)
             entry == IF child \in DOMAIN st.nodes THEN st.nodes
                      ELSE st.nodes @@ (child :> NodeNew)
         IN  NodeAddLeafOnly([nodes |-> entry, interner |-> got.interner],
                             child, Tail(path), count)

\* Node::add; st carries the tree and the interner the lazy path iterator feeds
RECURSIVE NodeAdd(_, _, _, _)
NodeAdd(st, self, path, count) ==
    LET counted == [st.nodes EXCEPT ![self] = U64Add(@, count)]
    IN  IF path = <<>> THEN [nodes |-> counted, interner |-> st.interner]
        ELSE LET got == GetOrIntern(st.interner, Head(path))
                 child == Child(self, got.sym)
                 entry == IF child \in DOMAIN counted THEN counted
                          ELSE counted @@ (child :> NodeNew)
             IN  NodeAdd([nodes |-> entry, interner |-> got.interner],
                         child, Tail(path), count)

SetMax(S) == CHOOSE x \in S : \A y \in S : y <= x

\* Node::depth with the threshold comparison turned around
RECURSIVE NodeDepthInverted(_, _, _, _)
NodeDepthInverted(nodes, self, min_count, depth) ==
    IF ~ U64Lt(nodes[self], min_count) THEN depth
    ELSE LET keys == ChildKeys(nodes, self)
         IN  IF keys = {} THEN depth
             ELSE SetMax({ NodeDepthInverted(nodes, Child(self, k), min_count, depth + 1) :
                           k \in keys })

\* Node::depth
RECURSIVE NodeDepth(_, _, _, _)
NodeDepth(nodes, self, min_count, depth) ==
    IF U64Lt(nodes[self], min_count) THEN depth
    ELSE LET keys == ChildKeys(nodes, self)
         IN  IF keys = {} THEN depth
             ELSE SetMax({ NodeDepth(nodes, Child(self, k), min_count, depth + 1) :
                           k \in keys })

\* keys.sort()
RECURSIVE SortAsc(_)
SortAsc(S) ==
    IF S = {} THEN <<>>
    ELSE LET lo == CHOOSE x \in S : \A y \in S : x <= y
         IN  <<lo>> \o SortAsc(S \ {lo})

\* keys.sort_by(|a, b| b.cmp(a))
RECURSIVE SortDesc(_)
SortDesc(S) ==
    IF S = {} THEN <<>>
    ELSE LET hi == CHOOSE x \in S : \A y \in S : y <= x
         IN  <<hi>> \o SortDesc(S \ {hi})

\* struct Rect; node is the tree node the rectangle was made from
Rect(node, name, count, depth, offset) ==
    [node |-> node, name |-> name, count |-> count, depth |-> depth, offset |-> offset]

\* Node::gen_rects, returning what it pushes onto buf
RECURSIVE GenRects(_, _, _, _, _)
RECURSIVE GenRectsLoop(_, _, _, _, _, _)
GenRects(nodes, self, name, depth, offset) ==
    <<Rect(self, name, nodes[self], depth, offset)>>
        \o GenRectsLoop(nodes, self, SortAsc(ChildKeys(nodes, self)), depth, offset, U64Zero)

GenRectsLoop(nodes, self, keys, depth, offset, delta) ==
    IF keys = <<>> THEN <<>>
    ELSE LET k == Head(keys)
             child == Child(self, k)
         IN  GenRects(nodes, child, k, depth + 1, U64Add(offset, delta))
                 \o GenRectsLoop(nodes, self, Tail(keys), depth, offset,
                                 U64Add(delta, nodes[child]))

\* Frame::new whose worklist misses the child with the greatest symbol
FrameNewDropsKey(nodes, node, name, offset) ==
    [keys |-> IF ChildKeys(nodes, node) = {} THEN <<>>
              ELSE Tail(SortDesc(ChildKeys(nodes, node))),
     start |-> offset, offset |-> offset, name |-> name, node |-> node]

\* Frame::new whose worklist is sorted ascending, so that pops come out descending
FrameNewAscending(nodes, node, name, offset) ==
    [keys |-> SortAsc(ChildKeys(nodes, node)),
     start |-> offset, offset |-> offset, name |-> name, node |-> node]

\* Frame::new
FrameNew(nodes, node, name, offset) ==
    [keys |-> SortDesc(ChildKeys(nodes, node)),
     start |-> offset, offset |-> offset, name |-> name, node |-> node]

\* Rects::new
RectsNew(nodes, node, name) == <<FrameNew(nodes, node, name, U64Zero)>>

\* the running offset left where it was
AdvanceOffsetNone(offset, child_count) == offset

\* the running offset advanced by twice the child's count
AdvanceOffsetTwice(offset, child_count) == U64Add(U64Add(offset, child_count), child_count)

\* current.offset += child.count
AdvanceOffset(offset, child_count) == U64Add(offset, child_count)

(***************************************************************************)
(* Bounds and inputs                                                       *)
(***************************************************************************)
MaxLines == 3

\* the lines stdin can deliver
Lines ==
    { \* "a;b 3"
      <<"a", ";", "b", " ", "3">>,
      \* "a;c 7"
      <<"a", ";", "c", " ", "7">>,
      \* "bad"
      <<"b", "a", "d">>,
      \* "a 1x"
      <<"a", " ", "1", "x">>,
      \* "a;;b 2"
      <<"a", ";", ";", "b", " ", "2">>,
      \* " a 1 "
      <<" ", "a", " ", "1", " ">>,
      \* "a 1000000000000"
      <<"a", " ", "1", "0", "0", "0", "0", "0", "0", "0", "0", "0", "0", "0", "0">>,
      \* "b;c 52358763"
      <<"b", ";", "c", " ", "5", "2", "3", "5", "8", "7", "6", "3">>,
      \* "c 0"
      <<"c", " ", "0">>
    }

(***************************************************************************)
(* main                                                                    *)
(***************************************************************************)
Width == F32FromU64[U64Of(1910)]
MinWidth == <<13421773, -27>>

VARIABLES
    overflow_checks,  \* build profile: TRUE panics on integer overflow, FALSE wraps
    pc,               \* "read", "render", "done", "panicked"
    nread,            \* lines taken from stdin so far
    interner,
    nodes,            \* the tree under root
    invalid_lines,
    records,          \* the (segments, count) of every root.add call, in order
    name,             \* symbol of "all"
    px_per_count,
    min_count,
    max_depth,
    stack,            \* Rects.stack
    rects,            \* the Some(rect) results of Rects::next so far
    output,           \* shapes written to the document buffer
    stdout,
    stderr

vars == <<overflow_checks, pc, nread, interner, nodes, invalid_lines, records, name,
          px_per_count, min_count, max_depth, stack, rects, output, stdout, stderr>>

Init ==
    /\ overflow_checks \in BOOLEAN
    /\ pc = "read"
    /\ nread = 0
    /\ interner = <<>>
    /\ nodes = (Root :> NodeNew)
    /\ invalid_lines = 0
    /\ records = <<>>
    /\ name = 0
    /\ px_per_count = F32Zero
    /\ min_count = U64Zero
    /\ max_depth = 0
    /\ stack = <<>>
    /\ rects = <<>>
    /\ output = <<>>
    /\ stdout = <<>>
    /\ stderr = <<>>

\* one iteration of the input loop
ReadLine(string) ==
    /\ pc = "read"
    /\ nread < MaxLines
    /\ nread' = nread + 1
    /\ LET line == Trim(string)
           last == RFind(line)
           stk == SubSeq(line, 1, last - 1)
           count_str == SubSeq(line, last + 1, Len(line))
           parsed == ParseU64(count_str)
       IN  IF last = 0 \/ ~ parsed.ok
           THEN /\ invalid_lines' = invalid_lines + 1
                /\ UNCHANGED <<pc, interner, nodes, records, stderr>>
           ELSE IF overflow_checks /\ U64Overflows(WideAdd(nodes[Root], parsed.val))
           THEN /\ pc' = "panicked"
                /\ stderr' = Append(stderr, [msg |-> "attempt to add with overflow"])
                /\ UNCHANGED <<interner, nodes, records, invalid_lines>>
           ELSE LET added == NodeAdd([nodes |-> nodes, interner |-> interner],
                                     Root, Segments(stk), parsed.val)
                IN  /\ nodes' = added.nodes
                    /\ interner' = added.interner
                    /\ records' = Append(records,
                                         [path |-> Segments(stk), count |-> parsed.val])
                    /\ UNCHANGED <<pc, invalid_lines, stderr>>
    /\ UNCHANGED <<overflow_checks, name, px_per_count, min_count, max_depth,
                   stack, rects, output, stdout>>

AllName == <<"a", "l", "l">>

\* end of input with root.count == 0
NoValidCounts ==
    /\ pc = "read"
    /\ nodes[Root] = U64Zero
    /\ LET got == GetOrIntern(interner, AllName)
       IN  /\ interner' = got.interner
           /\ name' = got.sym
    /\ stderr' = Append(stderr, [msg |-> "no valid stack counts provided!"])
    /\ pc' = "done"
    /\ UNCHANGED <<overflow_checks, nread, nodes, invalid_lines, records, px_per_count,
                   min_count, max_depth, stack, rects, output, stdout>>

\* end of input with root.count > 0: scale, resolve depth, start the iterator
BeginRender ==
    /\ pc = "read"
    /\ nodes[Root] # U64Zero
    /\ LET got == GetOrIntern(interner, AllName)
       IN  /\ interner' = got.interner
           /\ name' = got.sym
           /\ stack' = RectsNew(nodes, Root, got.sym)
    /\ \E ppc \in {F32Div[Width, F32FromU64[nodes[Root]]]} :
          \E mc \in {F32ToU64[F32Div[MinWidth, ppc]]} :
              /\ px_per_count' = ppc
              /\ min_count' = mc
              /\ max_depth' = NodeDepth(nodes, Root, mc, 0)
    /\ pc' = "render"
    /\ UNCHANGED <<overflow_checks, nread, nodes, invalid_lines, records,
                   rects, output, stdout, stderr>>

Top == stack[Len(stack)]
Popped == SubSeq(stack, 1, Len(stack) - 1)

\* Rects::next, loop iteration that descends into the next child
Descend ==
    /\ pc = "render"
    /\ stack # <<>>
    /\ Top.keys # <<>>
    /\ LET current == Top
           key == current.keys[Len(current.keys)]
           child == Child(current.node, key)
           next == FrameNew(nodes, child, key, current.offset)
           pushed == [current EXCEPT
                         !.keys = SubSeq(current.keys, 1, Len(current.keys) - 1),
                         !.offset = AdvanceOffset(current.offset, nodes[child])]
       IN  stack' = Popped \o <<pushed, next>>
    /\ UNCHANGED <<overflow_checks, pc, nread, interner, nodes, invalid_lines, records,
                   name, px_per_count, min_count, max_depth, rects, output, stdout,
                   stderr>>

\* the rectangle carrying the frame's running offset instead of its start
ReturnedRunningOffset ==
    Rect(Top.node, Top.name, nodes[Top.node], Len(Popped), Top.offset)

\* the rectangle Rects::next returns for an exhausted top frame
Returned ==
    Rect(Top.node, Top.name, nodes[Top.node], Len(Popped), Top.start)

RectWidth(rect) == F32Mul[F32FromU64[rect.count], px_per_count]

\* Rects::next returns Some(rect); the renderer skips it as too narrow
EmitSkipped ==
    /\ pc = "render"
    /\ stack # <<>>
    /\ Top.keys = <<>>
    /\ F32Lt(RectWidth(Returned), MinWidth)
    /\ stack' = Popped
    /\ rects' = Append(rects, Returned)
    /\ UNCHANGED <<overflow_checks, pc, nread, interner, nodes, invalid_lines, records,
                   name, px_per_count, min_count, max_depth, output, stdout, stderr>>

\* Rects::next returns Some(rect); the renderer writes its shape
EmitDrawn ==
    /\ pc = "render"
    /\ stack # <<>>
    /\ Top.keys = <<>>
    /\ ~ F32Lt(RectWidth(Returned), MinWidth)
    /\ Returned.depth <= max_depth
    /\ stack' = Popped
    /\ rects' = Append(rects, Returned)
    /\ output' = Append(output, [rect |-> Returned,
                                 y |-> U64Of(max_depth - Returned.depth)])
    /\ UNCHANGED <<overflow_checks, pc, nread, interner, nodes, invalid_lines, records,
                   name, px_per_count, min_count, max_depth, stdout, stderr>>

\* max_depth - rect.depth below zero, overflow checks on: the process panics
EmitPanics ==
    /\ pc = "render"
    /\ stack # <<>>
    /\ Top.keys = <<>>
    /\ ~ F32Lt(RectWidth(Returned), MinWidth)
    /\ Returned.depth > max_depth
    /\ overflow_checks
    /\ stack' = Popped
    /\ rects' = Append(rects, Returned)
    /\ stderr' = Append(stderr, [msg |-> "attempt to subtract with overflow"])
    /\ pc' = "panicked"
    /\ UNCHANGED <<overflow_checks, nread, interner, nodes, invalid_lines, records,
                   name, px_per_count, min_count, max_depth, output, stdout>>

\* max_depth - rect.depth below zero, overflow checks off: y wraps modulo 2^64
EmitWrapped ==
    /\ pc = "render"
    /\ stack # <<>>
    /\ Top.keys = <<>>
    /\ ~ F32Lt(RectWidth(Returned), MinWidth)
    /\ Returned.depth > max_depth
    /\ ~ overflow_checks
    /\ stack' = Popped
    /\ rects' = Append(rects, Returned)
    /\ output' = Append(output,
                        [rect |-> Returned,
                         y |-> U64WrappingSub(U64Of(max_depth), U64Of(Returned.depth))])
    /\ UNCHANGED <<overflow_checks, pc, nread, interner, nodes, invalid_lines, records,
                   name, px_per_count, min_count, max_depth, stdout, stderr>>

\* Rects::next returns None; main prints the document and the invalid-line tally
Finish ==
    /\ pc = "render"
    /\ stack = <<>>
    /\ stdout' = Append(stdout, output)
    /\ stderr' = IF invalid_lines > 0
                 THEN Append(stderr, [msg |-> "invalid lines", n |-> invalid_lines])
                 ELSE stderr
    /\ pc' = "done"
    /\ UNCHANGED <<overflow_checks, nread, interner, nodes, invalid_lines, records,
                   name, px_per_count, min_count, max_depth, stack, rects, output>>

Next ==
    \/ \E string \in Lines : ReadLine(string)
    \/ NoValidCounts
    \/ BeginRender
    \/ Descend
    \/ EmitSkipped
    \/ EmitDrawn
    \/ EmitPanics
    \/ EmitWrapped
    \/ Finish

Spec == Init /\ [][Next]_vars

\* main runs to completion: no step that can be taken is postponed forever
LiveSpec == Spec /\ WF_vars(Next)

TypeOK ==
    /\ overflow_checks \in BOOLEAN
    /\ pc \in {"read", "render", "done", "panicked"}
    /\ nread \in 0..MaxLines
    /\ invalid_lines \in 0..MaxLines
    /\ invalid_lines + Len(records) <= nread
    /\ Root \in DOMAIN nodes
    /\ \A p \in DOMAIN nodes : p # Root => SubSeq(p, 1, Len(p) - 1) \in DOMAIN nodes
    /\ \A i \in 1..Len(stack) : stack[i].node \in DOMAIN nodes

(***************************************************************************)
(* Vocabulary of the properties                                            *)
(***************************************************************************)
Range(s) == { s[i] : i \in 1..Len(s) }

Parent(p) == SubSeq(p, 1, Len(p) - 1)

IsProperPrefix(p, q) == Len(p) < Len(q) /\ SubSeq(q, 1, Len(p)) = p

\* Rects::next has returned None
Exhausted == pc = "done" /\ stdout # <<>>

\* positions in rects of the rectangles of two children of one parent, i visited first
Siblings(i, j) ==
    /\ i < j
    /\ rects[i].node # Root
    /\ rects[j].node # Root
    /\ Parent(rects[i].node) = Parent(rects[j].node)

\* j is the sibling visited right after i
NextSibling(i, j) ==
    /\ Siblings(i, j)
    /\ ~ \E k \in 1..Len(rects) : Siblings(i, k) /\ Siblings(k, j)

\* i is the first visited child of its parent
FirstChild(i) ==
    /\ rects[i].node # Root
    /\ ~ \E k \in 1..Len(rects) : Siblings(k, i)

\* position j holds the rectangle of the parent of the node at position i
ParentRect(i, j) ==
    /\ rects[i].node # Root
    /\ rects[j].node = Parent(rects[i].node)

\* the thresholds that tell the trees of a state apart: every count and its successor
Thresholds ==
    {U64Zero, min_count}
        \cup { nodes[p] : p \in DOMAIN nodes }
        \cup { U64Add(nodes[p], U64Of(1)) : p \in DOMAIN nodes }

\* the path of symbols a record's segments were interned to
SymPath(path) ==
    [i \in 1..Len(path) |-> CHOOSE s \in 1..Len(interner) : interner[s] = path[i]]

RECURSIVE OwnCount(_, _)
OwnCount(p, n) ==
    IF n = 0 THEN U64Zero
    ELSE IF SymPath(records[n].path) = p
         THEN U64Add(OwnCount(p, n - 1), records[n].count)
         ELSE OwnCount(p, n - 1)

RECURSIVE ChildrenCount(_, _)
ChildrenCount(p, keys) ==
    IF keys = {} THEN U64Zero
    ELSE LET k == CHOOSE x \in keys : TRUE
         IN  U64Add(nodes[Child(p, k)], ChildrenCount(p, keys \ {k}))

RECURSIVE RecordsCount(_)
RecordsCount(n) ==
    IF n = 0 THEN U64Zero ELSE U64Add(RecordsCount(n - 1), records[n].count)

\* byte values of the characters that occur in frame names
CharCode(ch) ==
    CASE ch = " " -> 32
      [] ch = ";" -> 59
      [] ch = "a" -> 97
      [] ch = "b" -> 98
      [] ch = "c" -> 99
      [] ch = "d" -> 100
      [] ch = "l" -> 108
      [] ch = "x" -> 120
      [] IsDigit(ch) -> 48 + DigitVal(ch)

\* str ordering: lexicographic by bytes
RECURSIVE StrLt(_, _)
StrLt(s, t) ==
    IF t = <<>> THEN FALSE
    ELSE IF s = <<>> THEN TRUE
    ELSE IF CharCode(Head(s)) # CharCode(Head(t)) THEN CharCode(Head(s)) < CharCode(Head(t))
    ELSE StrLt(Tail(s), Tail(t))

\* all segments handed to root.add, in input order
RECURSIVE SegmentsSeen(_)
SegmentsSeen(n) ==
    IF n = 0 THEN <<>> ELSE SegmentsSeen(n - 1) \o records[n].path

\* position at which a frame name first appears in the input
FirstSeen(s) ==
    LET all == SegmentsSeen(Len(records))
    IN  CHOOSE i \in 1..Len(all) : all[i] = s /\ \A j \in 1..(i - 1) : all[j] # s

(***************************************************************************)
(* C1                                                                      *)
(***************************************************************************)
EachNodeOnce ==
    \A i, j \in 1..Len(rects) : rects[i].node = rects[j].node => i = j

AllNodesVisited ==
    Exhausted =>
        /\ Len(rects) = Cardinality(DOMAIN nodes)
        /\ { rects[i].node : i \in 1..Len(rects) } = DOMAIN nodes
        /\ stack = <<>>

\* C1: Rects::next returns exactly one rectangle per tree node, each node the
\* source of one of them, then None with the stack empty, and the iteration
\* terminates.
C1_OnePerNode ==
    /\ [](EachNodeOnce /\ AllNodesVisited)
    /\ (pc = "render" ~> pc \in {"done", "panicked"})

C1_Witness ==
    /\ Exhausted
    /\ Len(rects) >= 4
    /\ \E i, j \in 1..Len(rects) : Siblings(i, j)

(***************************************************************************)
(* C2                                                                      *)
(***************************************************************************)
Aggregated ==
    /\ \A p \in DOMAIN nodes :
          nodes[p] = U64Add(OwnCount(p, Len(records)),
                            ChildrenCount(p, ChildKeys(nodes, p)))
    /\ \A p \in DOMAIN nodes : p # Root => U64Le(nodes[p], nodes[Parent(p)])
    /\ nodes[Root] = RecordsCount(Len(records))

\* C2: every node's count is the sum of the counts of the records ending at it
\* plus its children's counts, a child never exceeds its parent, the root holds
\* the sum of all records, and a line counted invalid changes no node.
C2_Aggregation ==
    /\ []Aggregated
    /\ [][invalid_lines' # invalid_lines => nodes' = nodes]_vars

C2_Witness ==
    /\ invalid_lines > 0
    /\ \E p \in DOMAIN nodes :
          /\ p # Root
          /\ ChildKeys(nodes, p) # {}
          /\ OwnCount(p, Len(records)) # U64Zero
          /\ U64Lt(OwnCount(p, Len(records)), nodes[p])

(***************************************************************************)
(* C3                                                                      *)
(***************************************************************************)
\* C3: in visiting order, the first child of a parent starts at the parent's
\* offset and every later child starts where the previous one ends, so sibling
\* spans are contiguous and do not overlap.
C3_SiblingsContiguous ==
    /\ \A i, j \in 1..Len(rects) :
          (FirstChild(i) /\ ParentRect(i, j)) => rects[i].offset = rects[j].offset
    /\ \A i, j \in 1..Len(rects) :
          NextSibling(i, j) =>
              rects[j].offset = U64Add(rects[i].offset, rects[i].count)
    /\ \A i, j \in 1..Len(rects) :
          Siblings(i, j) =>
              U64Le(WideAdd(rects[i].offset, rects[i].count), rects[j].offset)

C3_Witness ==
    \E i, j, k \in 1..Len(rects) :
        /\ NextSibling(i, j)
        /\ ParentRect(i, k)
        /\ rects[i].count # U64Zero
        /\ rects[k].offset # U64Zero

(***************************************************************************)
(* C4                                                                      *)
(***************************************************************************)
\* C4: the span of every non-root rectangle lies inside its parent's span.
C4_ChildInsideParent ==
    \A i, j \in 1..Len(rects) :
        ParentRect(i, j) =>
            /\ U64Le(rects[j].offset, rects[i].offset)
            /\ U64Le(WideAdd(rects[i].offset, rects[i].count),
                     WideAdd(rects[j].offset, rects[j].count))

C4_Witness ==
    \E i, j \in 1..Len(rects) :
        /\ ParentRect(i, j)
        /\ U64Lt(rects[j].offset, rects[i].offset)
        /\ U64Lt(rects[i].count, rects[j].count)

VisibleDepth(m) ==
    SetMax({ Len(p) : p \in { q \in DOMAIN nodes : U64Le(m, nodes[q]) } })

\* C6: when the root's count reaches min_count, Node::depth(min_count, 0) is the
\* greatest depth among the nodes whose count reaches min_count.
C6_DepthOfVisible ==
    \A m \in Thresholds :
        U64Le(m, nodes[Root]) => NodeDepth(nodes, Root, m, 0) = VisibleDepth(m)

(***************************************************************************)
(* C7                                                                      *)
(***************************************************************************)
\* C7: raising min_count never raises root.depth(min_count, 0).
C7_DepthMonotone ==
    \A m1, m2 \in Thresholds :
        U64Le(m1, m2) => NodeDepth(nodes, Root, m2, 0) <= NodeDepth(nodes, Root, m1, 0)

C7_Witness ==
    \E m1, m2 \in Thresholds :
        /\ U64Lt(m1, m2)
        /\ U64Le(m2, nodes[Root])
        /\ NodeDepth(nodes, Root, m2, 0) < NodeDepth(nodes, Root, m1, 0)

(***************************************************************************)
(* C8                                                                      *)
(***************************************************************************)
\* C8: a run that ends with a zero root count prints no document, reports the
\* empty result on stderr and, when lines were invalid, also reports their number.
C8_DegenerateRun ==
    (pc = "done" /\ nodes[Root] = U64Zero) =>
        /\ stdout = <<>>
        /\ \E i \in 1..Len(stderr) : stderr[i].msg = "no valid stack counts provided!"
        /\ invalid_lines > 0 =>
              \E i \in 1..Len(stderr) :
                  stderr[i] = [msg |-> "invalid lines", n |-> invalid_lines]

(***************************************************************************)
(* C9                                                                      *)
(***************************************************************************)
Generated == GenRects(nodes, Root, name, 0, U64Zero)

\* C9: the iterator and gen_rects(name, 0, 0, buf) yield the same rectangle for
\* every node, with depth the number of edges from the root; the iterator
\* returns a node after its descendants, gen_rects pushes it before them.
C9_SameAsGenRects ==
    /\ pc \in {"render", "done", "panicked"} => Range(rects) \subseteq Range(Generated)
    /\ Exhausted => Range(rects) = Range(Generated) /\ Len(rects) = Len(Generated)
    /\ \A i \in 1..Len(rects) : rects[i].depth = Len(rects[i].node)
    /\ \A i, j \in 1..Len(rects) :
          IsProperPrefix(rects[i].node, rects[j].node) => j < i
    /\ pc \in {"render", "done", "panicked"} =>
          \A i, j \in 1..Len(Generated) :
              IsProperPrefix(Generated[i].node, Generated[j].node) => i < j

C9_Witness ==
    /\ Exhausted
    /\ \E i, j \in 1..Len(rects) : Siblings(i, j) /\ rects[j].offset # U64Zero
    /\ \E i \in 1..Len(rects) : rects[i].depth >= 2

(***************************************************************************)
(* C10                                                                     *)
(***************************************************************************)
\* C10: a rectangle whose count reaches min_count is no deeper than
\* root.depth(min_count, 0), so max_depth - rect.depth never goes below zero
\* for a rectangle that passes the width filter.
C10_NoUnderflow ==
    /\ \A m \in Thresholds : \A i \in 1..Len(rects) :
          U64Le(m, rects[i].count) => rects[i].depth <= NodeDepth(nodes, Root, m, 0)
    /\ \A i \in 1..Len(rects) :
          ~ F32Lt(RectWidth(rects[i]), MinWidth) => rects[i].depth <= max_depth

====
